---- MODULE Spec2Model ----
(***************************************************************************)
(* A model of veusz's PlotWindow (src/windows/plotwindow.py): the refresh  *)
(* scheduler (slotTimeout and the operations that invalidate it), the page *)
(* number, the zoom slots, the click-mode machine with its gestures        *)
(* (click, scroll, zoom rectangle, pick, getClick), picker navigation by   *)
(* key, and the selection's control items.  Everything runs on the one UI  *)
(* thread, so every handler is one atomic step; a handler is suspended     *)
(* only in the modal exception dialog of slotTimeout (d.exec_()) and in    *)
(* the wait loop of getClick, both of which run a nested event loop.       *)
(***************************************************************************)
EXTENDS Integers, Sequences, FiniteSets, TLC

\* ---------------------------------------------------------------- bounds
\* Bits of the significand of the floating-point model (a double has 53).
Precision == 5
\* Binades either side of 1.0 that the zoom factor may reach.
MaxExp == 1
\* The document is edited at most this many times.
MaxChangeset == 2
\* The document holds at most this many pages.
MaxPages == 2
\* Exception dialogs that may be open at once (nested event loops).
MaxDialogs == 1
\* Plotters in the graph of the zoom-rectangle specification.
MaxPlotters == 2
\* Override cursors the application may have stacked.
MaxCursor == 2
\* getClick calls that may be waiting at once (nested event loops).
MaxWaits == 1

\* ------------------------------------------------------ program constants
\* self.docchangeset = -100
NoChangeset == -100
\* abs(...) < 10 in doZoomRect
DeadZone == 10

\* ------------------------------------------------------- floating point
\* A float is [m, e] with value m * 2^e, and either m = 0 or
\* 2^(Precision-1) <= |m| < 2^Precision.  Operations round to nearest, ties
\* to even, as IEEE-754 arithmetic does.
RECURSIVE Pow2(_)
Pow2(n) == IF n <= 0 THEN 1 ELSE 2 * Pow2(n - 1)

Abs(i) == IF i < 0 THEN -i ELSE i
Min(a, b) == IF a <= b THEN a ELSE b
Max(a, b) == IF a >= b THEN a ELSE b

RECURSIVE BitLen(_)
BitLen(n) == IF n = 0 THEN 0 ELSE 1 + BitLen(n \div 2)

\* n * 2^e (n > 0) rounded to Precision bits.
RoundNE(n, e) ==
    LET k == BitLen(n) - Precision IN
    IF k <= 0 THEN [m |-> n * Pow2(-k), e |-> e + k]
    ELSE LET q == n \div Pow2(k)
             r == n % Pow2(k)
             half == Pow2(k - 1)
             up == r > half \/ (r = half /\ q % 2 = 1)
             m == IF up THEN q + 1 ELSE q
         IN  IF m = Pow2(Precision)
             THEN [m |-> Pow2(Precision - 1), e |-> e + k + 1]
             ELSE [m |-> m, e |-> e + k]

Sign(f) == IF f.m < 0 THEN -1 ELSE 1
Signed(s, f) == [m |-> s * f.m, e |-> f.e]
Zero == [m |-> 0, e |-> 0]

\* a * b, rounded
Mul(a, b) ==
    IF a.m = 0 \/ b.m = 0 THEN Zero
    ELSE Signed(Sign(a) * Sign(b), RoundNE(Abs(a.m) * Abs(b.m), a.e + b.e))

\* a / b (b # 0), rounded: Precision+2 quotient bits and a sticky bit
Div(a, b) ==
    IF a.m = 0 THEN Zero
    ELSE LET num == Abs(a.m) * Pow2(Precision + 2)
             q == num \div Abs(b.m)
             sticky == IF num % Abs(b.m) = 0 THEN 0 ELSE 1
         IN  Signed(Sign(a) * Sign(b),
                    RoundNE(2 * q + sticky, a.e - b.e - (Precision + 2) - 1))

One == [m |-> Pow2(Precision - 1), e |-> -(Precision - 1)]
MinusOne == [m |-> -Pow2(Precision - 1), e |-> -(Precision - 1)]
Two == [m |-> Pow2(Precision - 1), e |-> -(Precision - 1) + 1]

\* N.sqrt(2.): the float nearest the square root of two
Sqrt2 ==
    LET n == Pow2(2 * Precision - 1)
        k == CHOOSE i \in Pow2(Precision - 1)..Pow2(Precision) :
                 i * i <= n /\ n < (i + 1) * (i + 1)
    IN  [m |-> IF n > k * k + k THEN k + 1 ELSE k, e |-> -(Precision - 1)]

\* The binade of a float: 0 for [1, 2), 1 for [2, 4), ...
Binade(f) == f.e + (Precision - 1)
InRange(f) == f.m > 0 /\ Binade(f) \in (-MaxExp)..MaxExp

\* The positive floats of the binades the model reaches.
ZoomFloats ==
    { [m |-> m, e |-> b - (Precision - 1)] :
        m \in Pow2(Precision - 1)..(Pow2(Precision) - 1), b \in (-MaxExp)..MaxExp }

\* |a - b| <= k * 2^(2 - Precision) * b, for positive floats a and b
Within(a, b, k) ==
    LET emin == Min(a.e, b.e)
        A == a.m * Pow2(a.e - emin)
        B == b.m * Pow2(b.e - emin)
    IN  Abs(A - B) * Pow2(Precision - 2) <= k * B

\* ------------------------------------------------------------- the state
VARIABLES
    \* the document (a collaborator)
    changeset,        \* document.changeset
    numpages,         \* document.getNumberPages()
    axes,             \* the min and max settings of the graph's axes
    plotters,         \* the graph's plotter children: their (xAxis, yAxis)
    \* the view
    zoomfactor, oldzoom, docchangeset, forceupdate, pagenumber,
    size,             \* self.size
    bufferpixmap,     \* self.bufferpixmap: unset until setOutputSize makes one
    pixmapitem,       \* the pixmap the scene shows
    painthelper,      \* the paint state of the last render pass, or None
    dialogs,          \* open exception dialogs, each a suspended slotTimeout
    pickeritem,       \* whether the picker cross-hair is visible
    focus,            \* whether the picker cross-hair has keyboard focus
    widgetpositions,  \* self.widgetpositions and its lookup table
    pickerinfo,       \* self.pickerinfo: the current pick
    pickerpos,        \* self.pickeritem.pos()
    pickerwidgets,    \* self.pickerwidgets
    waits,            \* the suspended getClick calls: each one's oldmode
    clickmode, currentclickmode, ignoreclick, grabpos, winpos,
    scrolltimer,      \* whether the single-shot hold timer is armed
    zoomrect,         \* whether the zoom rectangle is shown
    cursor,           \* depth of the application's override-cursor stack
    itemcursor,       \* the cursor shape set on the pixmap item
    scroll,           \* the scroll bars' offset (scene = window + scroll)
    button,           \* the mouse buttons held down
    \* history variables, read by the properties only
    last,             \* what the last handler did
    quiet,            \* nothing changed zoom, changeset or force flag since
                      \* the last slotTimeout finished a step
    pending,          \* changes made since the last render attempt
    sincefail,        \* the last render failed and nothing changed since
    stale,            \* a page was deleted since the page number was clamped
    zhist,            \* the trailing run of zoom-in/zoom-out operations
    gesture,          \* the left-button gesture in progress, if any
    \* the selection
    selwidget,        \* self.selwidget
    controlgraphs,    \* the control items on the scene (self.controlgraphs)
    selection         \* history: the widgets selectedWidgets was last called with

docvars == <<changeset, numpages, axes, plotters>>
refreshvars == <<zoomfactor, oldzoom, docchangeset, forceupdate, pagenumber,
                 size, bufferpixmap, pixmapitem, painthelper, dialogs>>
clickvars == <<clickmode, currentclickmode, ignoreclick, grabpos, winpos,
               scrolltimer, zoomrect, cursor, itemcursor, scroll, button>>
histvars == <<last, quiet, pending, sincefail, stale, zhist, gesture>>
pickstate == <<widgetpositions, pickerinfo, pickerpos, pickerwidgets>>
selvars == <<selwidget, controlgraphs, selection>>
vars == <<docvars, refreshvars, pickeritem, focus, pickstate, waits, clickvars,
          histvars, selvars>>

\* ------------------------------------------------------- values, helpers
NoPos == <<>>

\* What a pixmap holds: never written ("uninit"), the background fill
\* ("blank"), a drawing the render pass abandoned ("partial") or the page
\* `page` of document state `cs` drawn at `zoom` ("page").
Pix(kind, page, zoom, cs) == [kind |-> kind, page |-> page, zoom |-> zoom, cs |-> cs]
NoPix == Pix("uninit", 0, Zero, 0)

\* self.size = (1, 1)
UnitSize == [dims |-> "unit", zoom |-> One]
\* qt4.QPixmap(*size): a new pixmap, its content not yet written
NewPixmap(sz) == [set |-> TRUE, size |-> sz, pix |-> NoPix]
\* the attribute self.bufferpixmap does not exist yet
UnsetPixmap == [set |-> FALSE, size |-> UnitSize, pix |-> NoPix]

NoPaintHelper == [kind |-> "None", page |-> 0, zoom |-> Zero, cs |-> 0, done |-> FALSE]
\* document.PaintHelper(size, scaling=zoom, ...) painted with page `page` of
\* document state `cs`; done: the render pass ran to its end.
PaintHelper(page, zoom, cs, done) ==
    [kind |-> "ph", page |-> page, zoom |-> zoom, cs |-> cs, done |-> done]

\* Document.pageSize(page, scaling): the pixel size of a page.  Pages
\* alternate between two formats; pages are added and deleted at the end.
PageDims(p) == IF p % 2 = 0 THEN "portrait" ELSE "landscape"
pageSize(p, z) == [dims |-> PageDims(p), zoom |-> z]

Auto == [auto |-> TRUE, v |-> 0]
Val(v) == [auto |-> FALSE, v |-> v]

\* History of the left button: whether a press that was handled has not yet
\* seen its release, whether the hold timer promoted it to a scroll, the
\* mode slotSelectMode chose since that press ("None" if it did not), and
\* the window position of the last press or move event since that press.
NoGesture == [active |-> FALSE, promoted |-> FALSE, chosen |-> "None",
              lastpos |-> NoPos]

\* widgets.PickInfo(): no widget, no screen position, distance infinite.
Infinity == 1000
NoPickInfo == [widget |-> "None", index |-> 0, screenpos |-> NoPos,
               distance |-> Infinity]

\* The record of what the last handler did.
NoEv == [op |-> "init", rendered |-> FALSE, failed |-> FALSE, aborted |-> FALSE,
         idle |-> FALSE, pending |-> FALSE, sincefail |-> FALSE,
         hadbuffer |-> FALSE,
         shown |-> NewPixmap(UnitSize),
         mode |-> "None", grab |-> NoPos, endp |-> NoPos, hit |-> FALSE,
         staged |-> 0, batches |-> <<>>, axeskept |-> TRUE,
         csbefore |-> 0, clicked |-> FALSE,
         dopick |-> FALSE, signals |-> {}, pickkept |-> TRUE, poskept |-> TRUE,
         oldx |-> 0, edge |-> FALSE, gesture |-> NoGesture, cursorbefore |-> 0,
         stepwise |-> FALSE, enabled |-> <<>>, widget |-> "None",
         painted |-> FALSE, changed |-> FALSE, page |-> -1,
         toolbar |-> [prev |-> FALSE, next |-> FALSE]]

NoPending == [edit |-> FALSE, zoom |-> FALSE]

\* A suspended getClick: its oldmode, and as history what took the click
\* mode away from 'viewgetclick' and whether a press was handled meanwhile.
Wait(oldmode) == [oldmode |-> oldmode, exit |-> "None", grabbed |-> FALSE]

\* History of the innermost wait when a handler leaves the click mode at
\* newmode.
NoteExit(cause, newmode) ==
    waits' = IF waits # <<>> /\ clickmode = "viewgetclick" /\ newmode # "viewgetclick"
             THEN [waits EXCEPT ![Len(waits)].exit = cause]
             ELSE waits

\* History kept by an operation that leaves zoom factor, change counter and
\* force flag at (z, cs, f).
Touched(z, cs, f) ==
    /\ quiet' = (quiet /\ z = zoomfactor /\ cs = changeset /\ f = forceupdate)
    /\ sincefail' = (sincefail /\ z = zoomfactor /\ cs = changeset /\ f = forceupdate)

\* ----------------------------------------------------------- the document
\* An edit of the document (one operation, which may be a batch): the
\* change counter increments, and the edit leaves np pages, adding or
\* deleting pages at the end.
DocEdit(np) ==
    /\ changeset < MaxChangeset
    /\ changeset' = changeset + 1
    /\ numpages' = np
    /\ Touched(zoomfactor, changeset + 1, forceupdate)
    /\ pending' = [pending EXCEPT !.edit = TRUE]
    /\ stale' = (stale \/ np < numpages)
    /\ last' = [NoEv EXCEPT !.op = "edit"]
    /\ UNCHANGED <<selvars, pickstate, waits, gesture, axes, plotters, refreshvars, pickeritem, focus, clickvars, zhist>>

\* ------------------------------------------------------------ selection
\* The control item control.createGraphicsItem() makes for a widget from
\* the paint state ph.
ControlItem(w, ph) == [widget |-> w, ph |-> ph]

\* widget in self.painthelper.states, for the paint state ph: the widgets
\* of the document are drawn on each of its pages.
InStates(w, ph) == ph.kind # "None" /\ w # "None"

\* The items selectedWidgets(widgets) leaves on the scene, with the paint
\* state ph: the old ones are removed, those of each widget added.
NewControlGraphs(widgets, ph) ==
    { ControlItem(widgets[i], ph) :
        i \in { j \in 1..Len(widgets) : InStates(widgets[j], ph) } }

\* self.selwidget after selectedWidgets(widgets)
FirstOf(widgets) == IF widgets = <<>> THEN "None" ELSE widgets[1]

\* ------------------------------------------------------ refresh scheduler
\* setOutputSize: the size, buffer and force flag it leaves.
setOutputSize ==
    LET same == [size |-> size, bufferpixmap |-> bufferpixmap,
                 forceupdate |-> forceupdate]
        sz == pageSize(pagenumber, zoomfactor)
    IN  IF pagenumber >= numpages THEN same
        ELSE IF sz # size
             THEN [size |-> sz, bufferpixmap |-> NewPixmap(sz), forceupdate |-> TRUE]
             ELSE same

\* The except branch of slotTimeout, before d.exec_(): what is marked seen.
\* dcs and force are the fields' values when the render pass raised.
SeenOnFailure_Skip(dcs, force) ==
    [oldzoom |-> oldzoom, forceupdate |-> force, docchangeset |-> dcs]

SeenOnFailure(dcs, force) ==
    [oldzoom |-> zoomfactor, forceupdate |-> FALSE, docchangeset |-> changeset]

\* The end of slotTimeout: what is marked seen.
SeenAtEnd(dcs) ==
    [oldzoom |-> zoomfactor, forceupdate |-> FALSE, docchangeset |-> changeset]

\* self.pagenumber = min(getNumberPages() - 1, self.pagenumber), and 0 when
\* that is negative
ClampTick_NoElse(np, pn) == Min(np - 1, pn)

ClampTick(np, pn) == IF Min(np - 1, pn) >= 0 THEN Min(np - 1, pn) ELSE 0

\* What the render pass leaves in the buffer: the page, or, when it raises,
\* the background fill and whatever was drawn before the exception.
Rendered(outcome, pn) ==
    CASE outcome = "ok" -> Pix("page", pn, zoomfactor, changeset)
      [] OTHER -> Pix("partial", pn, zoomfactor, changeset)

\* updatePageToolbar: the enabled state it gives the previous-page and
\* next-page actions for page number pn.
updatePageToolbar(pn) == [prev |-> pn # 0, next |-> pn < numpages - 1]

\* History of the end of slotTimeout, from the emit of sigUpdatePage on,
\* for page number pn.
Notified(ev, pn) ==
    [ev EXCEPT !.signals = {"sigUpdatePage"}, !.page = pn,
               !.toolbar = updatePageToolbar(pn)]

\* slotTimeout, up to its return or to the exception dialog's d.exec_().
\* dcs is self.docchangeset on entry, op the name the history gives the call.
slotTimeout(dcs, op) ==
    LET ev == [NoEv EXCEPT !.op = op, !.idle = quiet, !.pending = pending.edit \/ pending.zoom,
                           !.sincefail = sincefail,
                           !.hadbuffer = bufferpixmap.set,
                           !.changed = (zoomfactor # oldzoom \/ changeset # dcs
                                        \/ forceupdate)]
    IN
    /\ quiet' = TRUE
    /\ UNCHANGED <<selwidget, selection, pickstate, waits, gesture, docvars, zoomfactor, clickvars, zhist>>
    /\ IF ~(zoomfactor # oldzoom \/ changeset # dcs \/ forceupdate)
       THEN /\ docchangeset' = dcs
            /\ last' = ev
            /\ UNCHANGED <<oldzoom, forceupdate, pagenumber, size, bufferpixmap,
                           pixmapitem, painthelper, dialogs, pickeritem, focus,
                           pending, sincefail, stale, controlgraphs>>
       ELSE LET o == setOutputSize IN
            IF ~o.bufferpixmap.set
            THEN \* self.bufferpixmap.fill raises AttributeError: the handler ends
                 /\ pickeritem' = FALSE
                 /\ focus' = FALSE
                 /\ docchangeset' = dcs
                 /\ last' = [ev EXCEPT !.aborted = TRUE]
                 /\ UNCHANGED <<oldzoom, forceupdate, pagenumber, size, bufferpixmap,
                                pixmapitem, painthelper, dialogs,
                                pending, sincefail, stale, controlgraphs>>
            ELSE LET pn == ClampTick(numpages, pagenumber) IN
                 /\ pickeritem' = FALSE
                 /\ focus' = FALSE
                 /\ size' = o.size
                 /\ pagenumber' = pn
                 /\ stale' = FALSE
                 /\ IF Min(numpages - 1, pagenumber) >= 0
                    THEN \E outcome \in {"ok", "raise"} :
                         LET buf == [o.bufferpixmap EXCEPT !.pix = Rendered(outcome, pn)]
                             seen == IF outcome = "ok" THEN SeenAtEnd(dcs)
                                     ELSE SeenOnFailure(dcs, o.forceupdate)
                         IN
                         /\ outcome # "ok" => dialogs < MaxDialogs
                         /\ painthelper' = PaintHelper(pn, zoomfactor, changeset,
                                                       outcome = "ok")
                         \* self.selectedWidgets([self.selwidget])
                         /\ controlgraphs' =
                                IF outcome = "ok"
                                THEN NewControlGraphs(<<selwidget>>, painthelper')
                                ELSE controlgraphs
                         /\ bufferpixmap' = buf
                         /\ oldzoom' = seen.oldzoom
                         /\ forceupdate' = seen.forceupdate
                         /\ docchangeset' = seen.docchangeset
                         /\ pixmapitem' = IF outcome = "ok" THEN buf ELSE pixmapitem
                         /\ dialogs' = IF outcome = "ok" THEN dialogs ELSE dialogs + 1
                         /\ pending' = NoPending
                         /\ sincefail' = (outcome # "ok")
                         /\ last' = [(IF outcome = "ok" THEN Notified(ev, pn) ELSE ev)
                                        EXCEPT !.rendered = TRUE,
                                               !.failed = (outcome # "ok")]
                    ELSE LET buf == [o.bufferpixmap EXCEPT !.pix = Pix("blank", 0, Zero, 0)]
                             seen == SeenAtEnd(dcs)
                         IN
                         /\ bufferpixmap' = buf
                         /\ oldzoom' = seen.oldzoom
                         /\ forceupdate' = seen.forceupdate
                         /\ docchangeset' = seen.docchangeset
                         /\ pixmapitem' = buf
                         /\ last' = Notified(ev, pn)
                         /\ UNCHANGED <<painthelper, dialogs, pending, sincefail,
                                        controlgraphs>>

\* The refresh timer fires.
Tick == slotTimeout(docchangeset, "tick")

\* actionForceUpdate: self.docchangeset = -100, then slotTimeout()
actionForceUpdate == slotTimeout(NoChangeset, "force")

\* The exception dialog is closed: the suspended slotTimeout runs to its end.
DialogClose ==
    LET seen == SeenAtEnd(docchangeset) IN
    /\ dialogs > 0
    /\ dialogs' = dialogs - 1
    /\ oldzoom' = seen.oldzoom
    /\ forceupdate' = seen.forceupdate
    /\ docchangeset' = seen.docchangeset
    /\ pixmapitem' = bufferpixmap
    /\ quiet' = TRUE
    /\ last' = Notified([NoEv EXCEPT !.op = "close", !.shown = pixmapitem,
                                     !.sincefail = sincefail], pagenumber)
    /\ UNCHANGED <<selvars, pickstate, waits, gesture, docvars, zoomfactor, pagenumber, size, bufferpixmap, painthelper,
                   pickeritem, focus, clickvars, pending, sincefail, stale, zhist>>

\* setZoomFactor(z)
setZoomFactor(z, op) ==
    /\ zoomfactor' = z
    /\ Touched(z, changeset, forceupdate)
    /\ pending' = [pending EXCEPT
                     !.zoom = (painthelper.kind = "None" \/ z # painthelper.zoom)]
    /\ zhist' = IF op \in {"in", "out"}
                THEN (IF Len(zhist) < 4 THEN zhist ELSE Tail(zhist))
                     \o <<[op |-> op, z |-> zoomfactor]>>
                ELSE <<>>
    /\ last' = [NoEv EXCEPT !.op = op]
    /\ UNCHANGED <<selvars, pickstate, waits, gesture, docvars, oldzoom, docchangeset, forceupdate, pagenumber, size,
                   bufferpixmap, pixmapitem, painthelper, dialogs, pickeritem, focus,
                   clickvars, stale>>

\* pageno = max(0, min(pageno, getNumberPages() - 1))
SetPageClamp_NoMax(pageno, np) == Min(pageno, np - 1)

SetPageClamp(pageno, np) == Max(0, Min(pageno, np - 1))

\* setPageNumber(pageno)
setPageNumber(pageno, op) ==
    LET noop == pagenumber = pageno /\ changeset = docchangeset
        pn == IF noop THEN pagenumber ELSE SetPageClamp(pageno, numpages)
        f == IF noop THEN forceupdate ELSE TRUE
    IN
    /\ pagenumber' = pn
    /\ forceupdate' = f
    /\ Touched(zoomfactor, changeset, f)
    /\ pending' = [pending EXCEPT !.edit = @ \/ pn # pagenumber]
    /\ stale' = (stale /\ noop)
    /\ last' = [NoEv EXCEPT !.op = op, !.aborted = noop]
    /\ UNCHANGED <<selvars, pickstate, waits, gesture, docvars, zoomfactor, oldzoom, docchangeset, size, bufferpixmap,
                   pixmapitem, painthelper, dialogs, pickeritem, focus, clickvars, zhist>>

slotViewPreviousPage == setPageNumber(pagenumber - 1, "prev")
slotViewNextPage == setPageNumber(pagenumber + 1, "next")

\* ------------------------------------------------- the refresh specification
\* The click-mode machine and the picker as __init__ leaves them, with the
\* history empty.
InitClick ==
    /\ pickeritem = FALSE
    /\ focus = FALSE
    /\ pickerinfo = NoPickInfo
    /\ pickerpos = <<0, 0>>
    /\ pickerwidgets = <<>>
    /\ waits = <<>>
    /\ gesture = NoGesture
    /\ selwidget = "None"
    /\ controlgraphs = {}
    /\ selection = <<>>
    /\ clickmode = "select"
    /\ currentclickmode = "None"
    /\ ignoreclick = FALSE
    /\ grabpos = NoPos
    /\ winpos = NoPos
    /\ scrolltimer = FALSE
    /\ zoomrect = FALSE
    /\ cursor = 0
    /\ itemcursor = "unset"
    /\ button = {}
    /\ last = NoEv
    /\ quiet = FALSE
    /\ pending = NoPending
    /\ sincefail = FALSE
    /\ stale = FALSE
    /\ zhist = <<>>

\* The state __init__ leaves, for a document of any page count.
InitView ==
    /\ zoomfactor = One
    /\ oldzoom = MinusOne
    /\ docchangeset = NoChangeset
    /\ pagenumber = 0
    /\ painthelper = NoPaintHelper
    /\ pixmapitem = NewPixmap(UnitSize)
    /\ dialogs = 0
    /\ widgetpositions = <<>>
    /\ InitClick

Init ==
    /\ changeset = 0
    /\ numpages \in 0..MaxPages
    /\ axes = <<>>
    /\ plotters = <<>>
    /\ scroll = <<0, 0>>
    /\ InitView
    \* self.forceupdate = False, then self.setOutputSize()
    /\ size = IF numpages > 0 THEN pageSize(0, One) ELSE UnitSize
    /\ bufferpixmap = IF numpages > 0 THEN NewPixmap(pageSize(0, One)) ELSE UnsetPixmap
    /\ forceupdate = (numpages > 0)

\* Zoom factors setZoomFactor is called with in the refresh specification.
RefreshZooms == {One, Two}

Next ==
    \/ Tick
    \/ actionForceUpdate
    \/ DialogClose
    \/ \E np \in 0..MaxPages : DocEdit(np)
    \/ \E z \in RefreshZooms : setZoomFactor(z, "setzoom")
    \/ \E n \in (-1)..(MaxPages + 1) : setPageNumber(n, "setpage")
    \/ slotViewPreviousPage
    \/ slotViewNextPage

Spec == Init /\ [][Next]_vars

\* ------------------------------------------------ refresh: the properties
\* C1 (as claimed): a timer tick that follows a slotTimeout with the zoom
\* factor, the document's change counter and the force flag unchanged in
\* between does not invoke the render pass.
C1_IdleTickNoRender == (last.op = "tick" /\ last.idle) => ~last.rendered

\* What holds of idle ticks: once the buffer exists (so the slotTimeout
\* before was not cut short at self.bufferpixmap.fill), an idle tick does
\* not invoke the render pass; in particular none does after a render.
IdleTickAfterCompletedStep ==
    (last.op = "tick" /\ last.idle /\ last.hadbuffer) => ~last.rendered

\* C2 (as claimed): a tick on a document with a page, after a zoom change, a
\* document edit or a page change not yet rendered, makes a render attempt
\* with the current zoom factor, page number and document state.
C2_NoChangeLost ==
    (last.op = "tick" /\ last.pending /\ numpages >= 1)
        => /\ last.rendered
           /\ painthelper.zoom = zoomfactor
           /\ painthelper.page = pagenumber
           /\ painthelper.cs = changeset

\* C3: when the render pass raises, zoom factor and change counter are
\* marked seen and the force flag cleared before the dialog opens: while
\* none of the three changes, the view's record equals them, and no tick
\* (nested in the dialog or later) invokes the render pass.
C3_FailureMarkedSeen ==
    /\ sincefail => (oldzoom = zoomfactor /\ docchangeset = changeset /\ ~forceupdate)
    /\ (last.op = "tick" /\ last.sincefail) => ~last.rendered

\* A tick delivered while the exception dialog is open, nothing changed
\* since the failure.
C3_Witness ==
    last.op = "tick" /\ last.sincefail /\ dialogs > 0 /\ ~painthelper.done

\* C4 (as claimed): when the slotTimeout whose render pass raised returns,
\* the scene shows the page it showed before.
C4_FailureKeepsScreen ==
    (last.op = "close" /\ last.shown.pix.kind = "page") => pixmapitem = last.shown

\* C5 (as claimed): after setPageNumber(n) the page number lies in
\* [0, max(0, numPages - 1)].
C5_SetPageClamped ==
    last.op = "setpage" => (0 <= pagenumber /\ pagenumber <= Max(0, numpages - 1))

\* C6 (as claimed): the page number is never negative and never greater
\* than or equal to the page count.
C6_PageBelowCount == 0 <= pagenumber /\ pagenumber < numpages

\* C6 (amended): the page number is never negative, and it is at most
\* max(0, numPages - 1) unless a page was deleted since the view last
\* clamped it (in setPageNumber past its early return, or in a tick).
C6_PageClampedUnlessStale ==
    /\ 0 <= pagenumber
    /\ ~stale => pagenumber <= Max(0, numpages - 1)

\* Previous-page on page 0 asked for page -1 and was clamped to 0.
C6_Witness ==
    last.op = "prev" /\ ~last.aborted /\ pagenumber = 0 /\ numpages > 0

\* ------------------------------------------------ the page and its graph
\* Window positions of the pointer events: one outside the graph, and
\* three inside it that lie 0, 9, 11 or 20 pixels apart in each direction.
Positions == {<<0, 0>>, <<10, 10>>, <<19, 30>>, <<30, 30>>}

\* self.mapToScene(pos): window to scene coordinates
MapToScene(pos) == <<pos[1] + scroll[1], pos[2] + scroll[2]>>

\* The page holds one graph; the paint state gives its bounds as
\* (left, top, right, bottom).
GraphBounds == <<5, 5, 30, 30>>

\* The graph's axis widgets and their settings.direction.
AxisIds == {"x", "y"}
Direction(a) == IF a = "x" THEN "horizontal" ELSE "vertical"
AutoAxes == [a \in AxisIds |-> [min |-> Auto, max |-> Auto]]

\* What settings.xAxis and settings.yAxis of a plotter may name: an axis of
\* the graph, or ("None") a name getAxes resolves to no widget.
Plotters ==
    { [xAxis |-> "x", yAxis |-> "y"], [xAxis |-> "x", yAxis |-> "None"],
      [xAxis |-> "None", yAxis |-> "None"] }
PlotterSeqs == UNION { [1..n -> Plotters] : n \in 0..MaxPlotters }

\* painthelper.pointInWidgetBounds(basewidget, x, y, widgets.Graph)
pointInWidgetBounds(x, y) ==
    IF /\ GraphBounds[1] <= x /\ x <= GraphBounds[3]
       /\ GraphBounds[2] <= y /\ y <= GraphBounds[4]
    THEN "graph" ELSE "None"

\* axis.plotterToGraphCoords(bounds, p): horizontal axes grow to the right,
\* vertical axes grow upwards (against the screen's y).
plotterToGraphCoords(a, p) ==
    IF Direction(a) = "horizontal" THEN p - GraphBounds[1] ELSE GraphBounds[4] - p

\* Document.applyOperation of an OperationMultiple of OperationSettingSet:
\* the settings the batch leaves.
RECURSIVE ApplyOps(_, _)
ApplyOps(ops, ax) ==
    IF ops = <<>> THEN ax
    ELSE ApplyOps(Tail(ops),
                  [ax EXCEPT ![Head(ops).axis][Head(ops).name] = Val(Head(ops).val)])

\* ------------------------------------------------------------ doZoomRect
SeqRange(q) == { q[i] : i \in 1..Len(q) }
Reverse(q) == [i \in 1..Len(q) |-> q[Len(q) + 1 - i]]

\* abs((pt2-pt1).x()) < 10 or abs((pt2-pt1).y()) < 10
InDeadZone_Both(pt1, pt2) ==
    Abs(pt2[1] - pt1[1]) < DeadZone /\ Abs(pt2[2] - pt1[2]) < DeadZone

InDeadZone(pt1, pt2) ==
    Abs(pt2[1] - pt1[1]) < DeadZone \/ Abs(pt2[2] - pt1[2]) < DeadZone

\* for a in caxes: if a: axes[a] = True   (keys in insertion order)
AddAxis_NoDedup(keys, a) ==
    IF a = "None" THEN keys ELSE Append(keys, a)

AddAxis(keys, a) ==
    IF a = "None" \/ a \in SeqRange(keys) THEN keys ELSE Append(keys, a)

\* The keys of the axes dict after the loop over the graph's plotters.
RECURSIVE CollectAxes(_, _)
CollectAxes(ps, keys) ==
    IF ps = <<>> THEN keys
    ELSE CollectAxes(Tail(ps), AddAxis(AddAxis(keys, Head(ps).xAxis), Head(ps).yAxis))

\* r for one axis: the two corners converted, swapped if r[1] < r[0]
ZoomRange(a, pt1, pt2) ==
    LET p == IF Direction(a) = "horizontal" THEN <<pt1[1], pt2[1]>>
                                             ELSE <<pt1[2], pt2[2]>>
        r == <<plotterToGraphCoords(a, p[1]), plotterToGraphCoords(a, p[2])>>
    IN  IF r[2] < r[1] THEN <<r[2], r[1]>> ELSE r

\* The operations one axis adds to the list.
AxisOps(a, r) ==
    (IF axes[a].min # Val(r[1])
     THEN <<[axis |-> a, name |-> "min", val |-> r[1]]>> ELSE <<>>)
    \o (IF axes[a].max # Val(r[2])
        THEN <<[axis |-> a, name |-> "max", val |-> r[2]]>> ELSE <<>>)

\* The operations list after the loop over axes.iterkeys().
RECURSIVE StageOps(_, _, _)
StageOps(keys, pt1, pt2) ==
    IF keys = <<>> THEN <<>>
    ELSE AxisOps(Head(keys), ZoomRange(Head(keys), pt1, pt2))
         \o StageOps(Tail(keys), pt1, pt2)

\* doZoomRect(endpos): how it ends ("return" early, "raise", or "apply"),
\* whether a graph was found, and the batches handed to applyOperation.
\* rev: the dict iterates its keys in insertion order or in the reverse.
doZoomRect(endpos, rev) ==
    LET none == [end |-> "return", hit |-> FALSE, batches |-> <<>>] IN
    IF grabpos = NoPos THEN none
    ELSE IF InDeadZone(grabpos, endpos) THEN none
    ELSE IF painthelper.kind = "None" THEN [none EXCEPT !.end = "raise"]
    ELSE IF pointInWidgetBounds(grabpos[1], grabpos[2]) = "None" THEN none
    ELSE LET keys == CollectAxes(plotters, <<>>)
             order == IF rev THEN Reverse(keys) ELSE keys
         IN  [end |-> "apply", hit |-> TRUE,
              batches |-> <<StageOps(order, grabpos, endpos)>>]

\* ------------------------------------------------- the click-mode machine
\* History of a handler that calls applyOperation n times (0 or 1).
Applied(n) ==
    IF n = 0 THEN UNCHANGED <<quiet, pending, sincefail>>
    ELSE /\ Touched(zoomfactor, changeset + n, forceupdate)
         /\ pending' = [pending EXCEPT !.edit = TRUE]

\* An entry of self.widgetpositions: a widget with, for a plotter, the
\* screen positions of its data points in index order.  A "plain" widget
\* has no pickPoint (the call raises AttributeError).
Widget(name, kind, points) == [widget |-> name, kind |-> kind, points |-> points]

\* The distance of a data point from (x, y), as pickPoint measures it
\* (squared; along x alone for distance='horizontal').
PickDistance(pt, x, y, metric) ==
    IF metric = "horizontal" THEN (pt[1] - x) * (pt[1] - x)
    ELSE (pt[1] - x) * (pt[1] - x) + (pt[2] - y) * (pt[2] - y)

\* w.pickPoint(x, y, bounds, distance=metric): the closest data point of a
\* plotter, an empty PickInfo if it has none.
pickPoint(w, x, y, metric) ==
    IF w.points = <<>> THEN NoPickInfo
    ELSE LET best == CHOOSE i \in 1..Len(w.points) :
                 \A j \in 1..Len(w.points) :
                     \/ PickDistance(w.points[i], x, y, metric)
                            < PickDistance(w.points[j], x, y, metric)
                     \/ /\ PickDistance(w.points[i], x, y, metric)
                               = PickDistance(w.points[j], x, y, metric)
                        /\ i <= j
         IN  [widget |-> w.widget, index |-> best, screenpos |-> w.points[best],
              distance |-> PickDistance(w.points[best], x, y, metric)]

\* w.pickIndex(ix, dir, bounds): the neighbouring data point, an empty
\* PickInfo past either end.
pickIndex_Clamp(w, ix, dir) ==
    LET n == Max(1, Min(Len(w.points), IF dir = "right" THEN ix + 1 ELSE ix - 1))
    IN  [widget |-> w.widget, index |-> n, screenpos |-> w.points[n], distance |-> 0]

pickIndex(w, ix, dir) ==
    LET n == IF dir = "right" THEN ix + 1 ELSE ix - 1 IN
    IF n \in 1..Len(w.points)
    THEN [widget |-> w.widget, index |-> n, screenpos |-> w.points[n], distance |-> 0]
    ELSE NoPickInfo

\* bool(pickinfo)
Valid_Always(info) == TRUE

Valid(info) == info.widget # "None"

\* self.widgetpositionslookup[w]
Lookup(name) ==
    widgetpositions[CHOOSE i \in 1..Len(widgetpositions) :
                        widgetpositions[i].widget = name]

\* The loop of doPick over a table: the widgets remembered and the overall
\* closest pick.
\* info.distance < pickinfo.distance
Nearer_OrEqual(info, pickinfo) == info.distance <= pickinfo.distance

Nearer(info, pickinfo) == info.distance < pickinfo.distance

RECURSIVE PickLoop(_, _, _)
PickLoop(table, pos, acc) ==
    IF table = <<>> THEN acc
    ELSE LET w == Head(table)
             info == pickPoint(w, pos[1], pos[2], "radial")
         IN  IF w.kind = "plain" THEN PickLoop(Tail(table), pos, acc)
             ELSE PickLoop(Tail(table), pos,
                           [pickerwidgets |-> Append(acc.pickerwidgets, w.widget),
                            pickinfo |-> IF Nearer(info, acc.pickinfo)
                                         THEN info ELSE acc.pickinfo])

\* doPick(mousepos): self.pickerwidgets and pickinfo at its end; when
\* pickinfo is empty the picker is hidden, otherwise emitPicked is called.
doPick(mousepos) ==
    PickLoop(widgetpositions, MapToScene(mousepos),
             [pickerwidgets |-> <<>>, pickinfo |-> NoPickInfo])

\* The picker after doPick(mousepos) on an overlay that was visible (vis)
\* and focused (foc) when it was called.
Picked(mousepos, vis, foc) ==
    LET d == doPick(mousepos) IN
    /\ pickerwidgets' = d.pickerwidgets
    /\ widgetpositions' = widgetpositions
    /\ IF Valid(d.pickinfo)
       THEN \* emitPicked(pickinfo)
            /\ pickerinfo' = d.pickinfo
            /\ pickerpos' = d.pickinfo.screenpos
            /\ pickeritem' = vis
            /\ focus' = foc
       ELSE /\ pickeritem' = FALSE
            /\ focus' = FALSE
            /\ UNCHANGED <<pickerinfo, pickerpos>>

\* The arguments of the sigPickerEnabled signals slotSelectMode emits, in
\* order, when the mode chosen is mode.
PickerEnabled_Always(mode) == <<FALSE, TRUE>>

PickerEnabled(mode) == IF mode = "pick" THEN <<FALSE, TRUE>> ELSE <<FALSE>>

\* slotSelectMode(action), mode being modecnvt[action]
slotSelectMode(mode) ==
    /\ pickeritem' = FALSE
    /\ focus' = FALSE
    /\ clickmode' = mode
    /\ itemcursor' = IF mode = "pick" THEN "cross" ELSE "unset"
    /\ NoteExit("slotSelectMode", mode)
    /\ gesture' = IF gesture.active THEN [gesture EXCEPT !.chosen = mode] ELSE gesture
    /\ last' = [NoEv EXCEPT !.op = "mode", !.mode = mode,
                            !.enabled = PickerEnabled(mode)]
    /\ UNCHANGED <<selvars, pickstate, docvars, refreshvars, currentclickmode, ignoreclick, grabpos,
                   winpos, scrolltimer, zoomrect, cursor, scroll, button,
                   quiet, pending, sincefail, stale, zhist>>

\* The scroll timer fires: slotBecomeScrollClick
slotBecomeScrollClick ==
    /\ scrolltimer
    /\ scrolltimer' = FALSE
    /\ IF currentclickmode = "select"
       THEN /\ cursor < MaxCursor
            /\ cursor' = cursor + 1
            /\ currentclickmode' = "scroll"
       ELSE UNCHANGED <<cursor, currentclickmode>>
    /\ last' = [NoEv EXCEPT !.op = "hold", !.mode = currentclickmode]
    /\ gesture' = [gesture EXCEPT !.promoted = @ \/ currentclickmode = "select"]
    /\ UNCHANGED <<selvars, pickstate, waits, docvars, refreshvars, pickeritem, focus, clickmode, ignoreclick, grabpos,
                   winpos, zoomrect, itemcursor, scroll, button,
                   quiet, pending, sincefail, stale, zhist>>

\* mousePressEvent: button b goes down at window position pos; onpixmap
\* tells whether self.itemAt(pos) is the pixmap item.
mousePressEvent(b, onpixmap, pos) ==
    /\ b \notin button
    /\ button' = button \cup {b}
    /\ ignoreclick' = ~onpixmap
    /\ IF b = "left" /\ onpixmap
       THEN /\ changeset < MaxChangeset
            /\ winpos' = pos
            /\ grabpos' = MapToScene(pos)
            /\ scrolltimer' = (scrolltimer \/ clickmode = "select")
            /\ IF clickmode = "pick"
               THEN \* show(), setFocus(), doPick(event.pos())
                    Picked(pos, TRUE, TRUE)
               ELSE UNCHANGED <<pickeritem, focus, pickstate>>
            /\ cursor' = IF clickmode = "scroll" THEN cursor + 1 ELSE cursor
            /\ zoomrect' = (zoomrect \/ clickmode = "graphzoom")
            /\ currentclickmode' = clickmode
       ELSE UNCHANGED <<winpos, grabpos, scrolltimer, pickeritem, focus, pickstate,
                        cursor, zoomrect, currentclickmode>>
    /\ waits' = IF b = "left" /\ onpixmap /\ waits # <<>> /\ clickmode = "viewgetclick"
                THEN [waits EXCEPT ![Len(waits)].grabbed = TRUE]
                ELSE waits
    /\ gesture' = IF b = "left"
                  THEN [active |-> onpixmap, promoted |-> FALSE, chosen |-> "None",
                        lastpos |-> pos]
                  ELSE gesture
    /\ last' = [NoEv EXCEPT !.op = "press", !.mode = clickmode,
                            !.clicked = (b = "left" /\ onpixmap),
                            !.dopick = (b = "left" /\ onpixmap /\ clickmode = "pick"),
                            !.signals =
                                IF /\ b = "left" /\ onpixmap /\ clickmode = "pick"
                                   /\ Valid(doPick(pos).pickinfo)
                                THEN {"sigPointPicked"} ELSE {},
                            !.pickkept = (pickerinfo' = pickerinfo),
                            !.poskept = (pickerpos' = pickerpos)]
    /\ UNCHANGED <<selvars, docvars, refreshvars, clickmode, itemcursor, scroll,
                   quiet, pending, sincefail, stale, zhist>>

\* painthelper.identifyWidgetAtPoint(basewidget, x, y): the widget drawn at
\* the point by the render pass of the paint state, None where the page is
\* bare.
identifyWidgetAtPoint(x, y) == pointInWidgetBounds(x, y)

\* basewidget.getPage(pagenumber): the page widget, None when there is no
\* page of that number.
getPage(pn) == IF 0 <= pn /\ pn < numpages THEN "page" ELSE "None"

\* locateClickWidget emitting the page whatever the document and the
\* paint state
locateClickWidget_Always(x, y) == "page"

\* locateClickWidget(x, y): the widget sigWidgetClicked is emitted with, or
\* how the call ends without emitting: "return" on a document without
\* pages, "raise" when self.painthelper is None, "silent" when neither a
\* widget nor a page is found.
locateClickWidget(x, y) ==
    IF numpages = 0 THEN "return"
    ELSE IF painthelper.kind = "None" THEN "raise"
    ELSE IF identifyWidgetAtPoint(x, y) # "None" THEN identifyWidgetAtPoint(x, y)
    ELSE IF getPage(pagenumber) # "None" THEN getPage(pagenumber)
    ELSE "silent"

\* The call emitted sigWidgetClicked.
Emitted(result) == result \notin {"return", "raise", "silent"}

\* mouseReleaseEvent: button b goes up at window position pos.
mouseReleaseEvent(b, pos, rev) ==
    LET handled == b = "left" /\ ~ignoreclick
        mode == IF handled THEN currentclickmode ELSE "ignored"
        z == doZoomRect(MapToScene(pos), rev)
        located == locateClickWidget(MapToScene(pos)[1], MapToScene(pos)[2])
        applied == IF mode = "graphzoom" THEN z.batches ELSE <<>>
    IN
    /\ b \in button
    /\ button' = button \ {b}
    /\ scrolltimer' = (scrolltimer /\ ~handled)
    /\ clickmode' = IF mode \in {"scroll", "viewgetclick"} THEN "select" ELSE clickmode
    /\ currentclickmode' = IF mode \in {"scroll", "pick"} THEN "None"
                           ELSE currentclickmode
    /\ cursor' = IF mode = "scroll" THEN Max(0, cursor - 1) ELSE cursor
    /\ zoomrect' = (zoomrect /\ mode # "graphzoom")
    /\ grabpos' = IF mode = "graphzoom" /\ z.end # "raise" THEN NoPos ELSE grabpos
    /\ axes' = IF Len(applied) = 0 THEN axes ELSE ApplyOps(applied[1], axes)
    /\ changeset' = changeset + Len(applied)
    /\ Applied(Len(applied))
    /\ NoteExit(mode, IF mode \in {"scroll", "viewgetclick"} THEN "select"
                      ELSE clickmode)
    /\ gesture' = IF b = "left" THEN NoGesture ELSE gesture
    /\ last' = [NoEv EXCEPT !.op = "release", !.mode = mode,
                            !.gesture = gesture, !.cursorbefore = cursor,
                            !.grab = IF mode = "graphzoom" THEN grabpos ELSE NoPos,
                            !.endp = IF mode = "graphzoom" THEN MapToScene(pos)
                                     ELSE NoPos,
                            !.hit = (mode = "graphzoom" /\ z.hit),
                            !.aborted = (mode = "graphzoom" /\ z.end = "raise"),
                            !.staged = IF Len(applied) = 0 THEN 0 ELSE Len(applied[1]),
                            !.batches = applied,
                            !.axeskept = (axes' = axes), !.csbefore = changeset,
                            !.clicked = (mode = "select" /\ Emitted(located)),
                            !.widget = IF mode = "select" THEN located ELSE "None",
                            !.painted = (painthelper.kind # "None")]
    /\ UNCHANGED <<selvars, pickstate, numpages, plotters, refreshvars, pickeritem, focus, ignoreclick, winpos,
                   itemcursor, scroll, stale, zhist>>

\* ------------------------------------------ the zoom-rectangle specification
\* A one-page document whose page holds a graph with a horizontal and a
\* vertical axis and some plotters, after the view's first render of it.
InitZoomRect ==
    /\ changeset = 0
    /\ numpages = 1
    /\ axes = AutoAxes
    /\ plotters \in PlotterSeqs
    /\ scroll = <<0, 0>>
    /\ widgetpositions = <<>>
    /\ InitClick
    /\ zoomfactor = One
    /\ pagenumber = 0
    /\ size = pageSize(0, One)
    /\ bufferpixmap = [NewPixmap(pageSize(0, One)) EXCEPT !.pix = Pix("page", 0, One, 0)]
    /\ pixmapitem = bufferpixmap
    /\ painthelper = PaintHelper(0, One, 0, TRUE)
    /\ dialogs = 0
    \* the end of slotTimeout: what was rendered is recorded as seen
    /\ oldzoom = zoomfactor
    /\ docchangeset = changeset
    /\ forceupdate = FALSE

ClickModes == {"select", "pick", "graphzoom"}
\* The gestures of this specification are made with the left button alone.
Buttons == {"left"}

NextZoomRect ==
    \/ \E m \in ClickModes : slotSelectMode(m)
    \/ slotBecomeScrollClick
    \/ \E b \in Buttons, onpixmap \in BOOLEAN, pos \in Positions :
           mousePressEvent(b, onpixmap, pos)
    \/ \E b \in Buttons, pos \in Positions, rev \in BOOLEAN :
           mouseReleaseEvent(b, pos, rev)

SpecZoomRect == InitZoomRect /\ [][NextZoomRect]_vars

\* --------------------------------------------- zoom rectangle: properties
\* The last handler was a release that ended a zoom-rectangle gesture
\* (doZoomRect ran with a grab point).
ZoomGesture ==
    last.op = "release" /\ last.mode = "graphzoom" /\ last.grab # NoPos

DragX == Abs(last.endp[1] - last.grab[1])
DragY == Abs(last.endp[2] - last.grab[2])

\* The axes some plotter of the graph names.
Referenced ==
    { a \in AxisIds : \E i \in 1..Len(plotters) :
                          plotters[i].xAxis = a \/ plotters[i].yAxis = a }

\* The data values of the gesture's two corners along the direction of a.
CornerValues(a) ==
    IF Direction(a) = "horizontal"
    THEN { plotterToGraphCoords(a, last.grab[1]), plotterToGraphCoords(a, last.endp[1]) }
    ELSE { plotterToGraphCoords(a, last.grab[2]), plotterToGraphCoords(a, last.endp[2]) }
Least(S) == CHOOSE v \in S : \A w \in S : v <= w
Greatest(S) == CHOOSE v \in S : \A w \in S : w <= v

C8_OneBatchSetsAxes ==
    (/\ ZoomGesture /\ DragX >= DeadZone /\ DragY >= DeadZone
     /\ pointInWidgetBounds(last.grab[1], last.grab[2]) = "graph")
        => /\ Len(last.batches) = 1
           /\ changeset = last.csbefore + 1
           /\ \A a \in Referenced :
                  /\ axes[a].min = Val(Least(CornerValues(a)))
                  /\ axes[a].max = Val(Greatest(CornerValues(a)))
                  /\ axes[a].min.v <= axes[a].max.v
           /\ LET b == last.batches[1] IN
              /\ \A i \in 1..Len(b) :
                     /\ b[i].axis \in Referenced
                     /\ b[i].val = IF b[i].name = "min"
                                   THEN Least(CornerValues(b[i].axis))
                                   ELSE Greatest(CornerValues(b[i].axis))
              /\ \A i, j \in 1..Len(b) :
                     (b[i].axis = b[j].axis /\ b[i].name = b[j].name) => i = j

\* A rectangle dragged from the bottom right to the top left of a graph
\* with two plotters that share both axes: one batch of four operations.
C8_Witness ==
    /\ ZoomGesture
    /\ last.grab = <<30, 30>> /\ last.endp = <<10, 10>>
    /\ Len(plotters) >= 2
    /\ \A i \in 1..2 : plotters[i] = [xAxis |-> "x", yAxis |-> "y"]
    /\ Len(last.batches) = 1 /\ Len(last.batches[1]) = 4
    /\ axes["x"] = [min |-> Val(5), max |-> Val(25)]
    /\ axes["y"] = [min |-> Val(0), max |-> Val(20)]

\* C9 (as claimed): a zoom-rectangle gesture that passes the dead zone and
\* hits the graph but stages no setting change applies nothing: no empty
\* batch, and the change counter stays.
C9_NoEmptyBatch ==
    (/\ ZoomGesture /\ DragX >= DeadZone /\ DragY >= DeadZone
     /\ last.hit /\ last.staged = 0)
        => /\ last.batches = <<>>
           /\ changeset = last.csbefore

\* ------------------------------------------------- the discrete zoom slots
\* slotViewZoomOut: self.setZoomFactor(self.zoomfactor / N.sqrt(2.))
slotViewZoomOut_Half ==
    /\ InRange(Div(zoomfactor, Two))
    /\ setZoomFactor(Div(zoomfactor, Two), "out")

slotViewZoomOut ==
    /\ InRange(Div(zoomfactor, Sqrt2))
    /\ setZoomFactor(Div(zoomfactor, Sqrt2), "out")

\* slotViewZoomIn: self.setZoomFactor(self.zoomfactor * N.sqrt(2.))
slotViewZoomIn ==
    /\ InRange(Mul(zoomfactor, Sqrt2))
    /\ setZoomFactor(Mul(zoomfactor, Sqrt2), "in")

\* slotViewZoom11: self.setZoomFactor(1.)
slotViewZoom11 == setZoomFactor(One, "11")

\* The view of a one-page document, zoomed by the discrete slots and by
\* setZoomFactor with any float of the modelled binades.
InitZoom == Init /\ numpages = 1

NextZoom ==
    \/ slotViewZoomIn
    \/ slotViewZoomOut
    \/ slotViewZoom11
    \/ \E z \in ZoomFloats : setZoomFactor(z, "setzoom")

SpecZoom == InitZoom /\ [][NextZoom]_vars

\* ------------------------------------------------------ zoom: properties
\* The last n zoom operations were exactly the slots named by ops.
ZoomRun(ops) ==
    /\ Len(zhist) >= Len(ops)
    /\ \A i \in 1..Len(ops) : zhist[Len(zhist) - Len(ops) + i].op = ops[i]
\* The zoom factor before the last n zoom slots.
ZoomBefore(n) == zhist[Len(zhist) - n + 1].z

\* C10 (as claimed): slotViewZoomIn then slotViewZoomOut, or the reverse,
\* returns the zoom factor to the value it had before the pair, and two
\* zoom-ins followed by two zoom-outs do.
C10_ZoomInOutIdentity ==
    /\ (ZoomRun(<<"in", "out">>) \/ ZoomRun(<<"out", "in">>))
           => zoomfactor = ZoomBefore(2)
    /\ ZoomRun(<<"in", "in", "out", "out">>) => zoomfactor = ZoomBefore(4)

\* C10 (amended): a zoom-in and a zoom-out, in either order, return the
\* zoom factor to within a relative error of 2^(2 - Precision) of the value
\* before the pair (2^-51 for a double), and two zoom-ins followed by two
\* zoom-outs to within twice that.
C10_ZoomInOutWithinTolerance ==
    /\ (ZoomRun(<<"in", "out">>) \/ ZoomRun(<<"out", "in">>))
           => Within(zoomfactor, ZoomBefore(2), 1)
    /\ ZoomRun(<<"in", "in", "out", "out">>)
           => Within(zoomfactor, ZoomBefore(4), 2)

\* A zoom-in then a zoom-out that came back next to, not at, the start.
C10_Witness ==
    /\ ZoomRun(<<"in", "out">>)
    /\ zoomfactor # ZoomBefore(2)
    /\ Within(zoomfactor, ZoomBefore(2), 1)

\* --------------------------------------------------------- the fit slots
\* float(n) for an integer n
FromInt(n) ==
    IF n = 0 THEN Zero
    ELSE Signed(IF n < 0 THEN -1 ELSE 1, RoundNE(Abs(n), 0))

\* int(f): the integer part of a float, towards zero
ToInt(f) ==
    IF f.e >= 0 THEN f.m * Pow2(f.e)
    ELSE Sign(f) * (Abs(f.m) \div Pow2(-f.e))

\* a < b on floats
FloatLess(a, b) ==
    LET emin == Min(a.e, b.e)
    IN  a.m * Pow2(a.e - emin) < b.m * Pow2(b.e - emin)
FloatMin(a, b) == IF FloatLess(b, a) THEN b ELSE a

\* The pixel size of a page format at zoom 1, and self.size in pixels.
BaseDims(d) ==
    CASE d = "portrait" -> <<4, 6>>
      [] d = "landscape" -> <<6, 4>>
      [] OTHER -> <<1, 1>>
PixelSize(sz) ==
    <<ToInt(Mul(FromInt(BaseDims(sz.dims)[1]), sz.zoom)),
      ToInt(Mul(FromInt(BaseDims(sz.dims)[2]), sz.zoom))>>

\* self.maximumViewportSize(): the view is as large as the page at zoom 2,
\* wide and low, or smaller than a scroll bar is thick.
Viewports == { [w |-> 8, h |-> 12], [w |-> 12, h |-> 6], [w |-> 2, h |-> 1] }
\* verticalScrollBar().width() and horizontalScrollBar().height()
ScrollBarExtent == 2

\* A zoom factor the model follows: of the modelled binades, or not positive.
ZoomReached(f) ==
    \/ InRange(f)
    \/ f.m = 0
    \/ f.m < 0 /\ Binade(f) \in (-MaxExp)..MaxExp

\* slotViewZoomWidth, the viewport being vp
slotViewZoomWidth(vp) ==
    LET aspectwin == Div(FromInt(vp.w), FromInt(vp.h))
        px == PixelSize(size)
        aspectplot == Div(FromInt(px[1]), FromInt(px[2]))
        width == IF FloatLess(aspectplot, aspectwin)
                 THEN vp.w - ScrollBarExtent ELSE vp.w
        mult == Div(FromInt(width), FromInt(px[1]))
    IN  /\ ZoomReached(Mul(zoomfactor, mult))
        /\ setZoomFactor(Mul(zoomfactor, mult), "width")

\* slotViewZoomHeight, the viewport being vp
slotViewZoomHeight(vp) ==
    LET aspectwin == Div(FromInt(vp.w), FromInt(vp.h))
        px == PixelSize(size)
        aspectplot == Div(FromInt(px[1]), FromInt(px[2]))
        height == IF FloatLess(aspectwin, aspectplot)
                  THEN vp.h - ScrollBarExtent ELSE vp.h
        mult == Div(FromInt(height), FromInt(px[2]))
    IN  /\ ZoomReached(Mul(zoomfactor, mult))
        /\ setZoomFactor(Mul(zoomfactor, mult), "height")

\* slotViewZoomPage, the viewport being vp
slotViewZoomPage(vp) ==
    LET px == PixelSize(size)
        multw == Div(FromInt(vp.w), FromInt(px[1]))
        multh == Div(FromInt(vp.h), FromInt(px[2]))
    IN  /\ ZoomReached(Mul(zoomfactor, FloatMin(multw, multh)))
        /\ setZoomFactor(Mul(zoomfactor, FloatMin(multw, multh)), "page")

\* The zoom slots on the view of a one-page document whose refresh timer
\* is disabled (plot_updateinterval 0): self.size stays as __init__ set it.
NextZoomFit ==
    \/ slotViewZoomIn
    \/ slotViewZoomOut
    \/ slotViewZoom11
    \/ \E vp \in Viewports : slotViewZoomWidth(vp)
    \/ \E vp \in Viewports : slotViewZoomHeight(vp)
    \/ \E vp \in Viewports : slotViewZoomPage(vp)
    \/ \E z \in RefreshZooms : setZoomFactor(z, "setzoom")

SpecZoomFit == InitZoom /\ [][NextZoomFit]_vars

\* C11 (as claimed): the zoom factor is strictly positive in every
\* reachable state.
C11_ZoomPositive == zoomfactor.m > 0

\* ------------------------------------------------ pointer moves and keys
\* The scroll bars' maximum: the page is this much larger than the viewport.
ScrollMax == 9
\* QScrollBar.setValue(v): the value is kept within the bar's range
ScrollTo(v) == Max(0, Min(ScrollMax, v))

\* Which branch of mouseMoveEvent runs.
MoveBranch ==
    IF currentclickmode = "scroll" THEN "scroll"
    ELSE IF currentclickmode = "graphzoom" /\ grabpos # NoPos THEN "zoomrect"
    ELSE IF clickmode = "select" \/ clickmode = "pick" THEN "axes"
    ELSE "none"

\* mouseMoveEvent: the pointer moves to window position pos.
mouseMoveEvent(pos) ==
    LET picks == MoveBranch = "axes" /\ currentclickmode = "pick" IN
    /\ IF MoveBranch = "scroll"
       THEN /\ scroll' = <<ScrollTo(scroll[1] + winpos[1] - pos[1]),
                           ScrollTo(scroll[2] + winpos[2] - pos[2])>>
            /\ winpos' = pos
       ELSE UNCHANGED <<scroll, winpos>>
    /\ IF picks THEN Picked(pos, pickeritem, focus)
       ELSE UNCHANGED <<pickeritem, focus, pickstate>>
    /\ gesture' = IF "left" \in button THEN [gesture EXCEPT !.lastpos = pos]
                  ELSE gesture
    /\ last' = [NoEv EXCEPT !.op = "move", !.mode = currentclickmode,
                            !.dopick = picks,
                            !.stepwise = (MoveBranch = "scroll"
                                          /\ winpos = gesture.lastpos),
                            !.signals =
                                (IF MoveBranch = "axes"
                                 THEN {"sigAxisValuesFromMouse"} ELSE {})
                                \cup (IF picks /\ Valid(doPick(pos).pickinfo)
                                      THEN {"sigPointPicked"} ELSE {}),
                            !.pickkept = (pickerinfo' = pickerinfo),
                            !.poskept = (pickerpos' = pickerpos)]
    /\ UNCHANGED <<selvars, waits, docvars, refreshvars, clickmode, currentclickmode,
                   ignoreclick, grabpos, scrolltimer, zoomrect, cursor, itemcursor,
                   button, quiet, pending, sincefail, stale, zhist>>

\* The loop of keyPressEvent for Up and Down over self.pickerwidgets: the
\* pick on another plotter closest above (Up) or below (Down).
\* abs(dy) < dist
Closer_OrEqual(dy, dist) == Abs(dy) <= dist

Closer(dy, dist) == Abs(dy) < dist

RECURSIVE VerticalLoop(_, _, _)
VerticalLoop(ws, k, acc) ==
    IF ws = <<>> THEN acc
    ELSE LET pi == pickPoint(Lookup(Head(ws)), pickerinfo.screenpos[1], pickerpos[2],
                             "horizontal")
             dy == pickerpos[2] - pi.screenpos[2]
         IN  IF Head(ws) = pickerinfo.widget \/ ~Valid(pi)
             THEN VerticalLoop(Tail(ws), k, acc)
             ELSE IF /\ Closer(dy, acc.dist)
                     /\ ((k = "Up" /\ dy > 0) \/ (k = "Down" /\ dy < 0))
                  THEN VerticalLoop(Tail(ws), k, [pickinfo |-> pi, dist |-> Abs(dy)])
                  ELSE VerticalLoop(Tail(ws), k, acc)

\* pickinfo.screenpos = (oldx, pickinfo.screenpos[1]) after emitPicked
KeepColumn_Drift(pickinfo, oldx) == pickinfo

KeepColumn(pickinfo, oldx) ==
    [pickinfo EXCEPT !.screenpos = <<oldx, pickinfo.screenpos[2]>>]

Keys == {"Left", "Right", "Up", "Down", "Other"}

\* keyPressEvent: key k is pressed.
keyPressEvent(k) ==
    LET horiz == focus /\ k \in {"Left", "Right"} /\ pickerinfo.widget # "None"
        vert == focus /\ k \in {"Up", "Down"}
        pickinfo ==
            IF horiz
            THEN pickIndex(Lookup(pickerinfo.widget), pickerinfo.index,
                           IF k = "Right" THEN "right" ELSE "left")
            ELSE IF vert
            THEN VerticalLoop(pickerwidgets, k,
                              [pickinfo |-> NoPickInfo, dist |-> Infinity]).pickinfo
            ELSE NoPickInfo
    IN
    /\ IF Valid(pickinfo)
       THEN \* emitPicked(pickinfo)
            /\ pickerinfo' = IF vert THEN KeepColumn(pickinfo, pickerinfo.screenpos[1])
                             ELSE pickinfo
            /\ pickerpos' = pickinfo.screenpos
       ELSE UNCHANGED <<pickerinfo, pickerpos>>
    /\ last' = [NoEv EXCEPT !.op = "key", !.mode = IF focus THEN k ELSE "None",
                            !.clicked = focus,
                            !.aborted = (focus /\ k \in {"Left", "Right"}
                                         /\ pickerinfo.widget = "None"),
                            !.signals = IF Valid(pickinfo) THEN {"sigPointPicked"}
                                        ELSE {},
                            !.pickkept = (pickerinfo' = pickerinfo),
                            !.poskept = (pickerpos' = pickerpos),
                            !.oldx = IF vert /\ Valid(pickinfo)
                                     THEN pickerinfo.screenpos[1] ELSE 0,
                            !.edge = /\ horiz
                                     /\ pickerinfo.index =
                                            IF k = "Left" THEN 1
                                            ELSE Len(Lookup(pickerinfo.widget).points)]
    /\ UNCHANGED <<selvars, waits, gesture, docvars, refreshvars, pickeritem, focus, widgetpositions,
                   pickerwidgets, clickvars, quiet, pending, sincefail, stale, zhist>>

\* ------------------------------------------------- the pick specification
\* The tables of widget positions: empty (as __init__ leaves it); an axis
\* and a plotter without data; an axis and two plotters of two points.
PickTables ==
    { <<>>,
      <<Widget("x", "plain", <<>>), Widget("c0", "plotter", <<>>)>>,
      <<Widget("x", "plain", <<>>),
        Widget("c1", "plotter", << <<10, 10>>, <<30, 10>> >>),
        Widget("c2", "plotter", << <<19, 30>>, <<30, 30>> >>)>> }

\* A rendered one-page document and a view whose table of widget
\* positions has been filled.
InitPick ==
    /\ changeset = 0
    /\ numpages = 1
    /\ axes = AutoAxes
    /\ plotters = <<>>
    /\ scroll = <<0, 0>>
    /\ widgetpositions \in PickTables
    /\ InitClick
    /\ zoomfactor = One
    /\ pagenumber = 0
    /\ size = pageSize(0, One)
    /\ bufferpixmap = [NewPixmap(pageSize(0, One)) EXCEPT !.pix = Pix("page", 0, One, 0)]
    /\ pixmapitem = bufferpixmap
    /\ painthelper = PaintHelper(0, One, 0, TRUE)
    /\ dialogs = 0
    /\ oldzoom = zoomfactor
    /\ docchangeset = changeset
    /\ forceupdate = FALSE

PickModes == {"select", "pick"}
\* Where the pointer events of this specification happen: next to the
\* first point of plotter c1, and at the last point of plotter c2.
PickPositions == {<<10, 10>>, <<30, 30>>}

NextPick ==
    \/ \E m \in PickModes : slotSelectMode(m)
    \/ slotBecomeScrollClick
    \/ \E onpixmap \in BOOLEAN, pos \in PickPositions :
           mousePressEvent("left", onpixmap, pos)
    \/ \E pos \in PickPositions : mouseMoveEvent(pos)
    \/ \E pos \in PickPositions : mouseReleaseEvent("left", pos, FALSE)
    \/ \E k \in Keys : keyPressEvent(k)

SpecPick == InitPick /\ [][NextPick]_vars

\* ------------------------------------------------------ pick: properties
\* No widget of the table gives a pick: each lacks pickPoint or has no data.
NoValidPick ==
    \A i \in 1..Len(widgetpositions) :
        widgetpositions[i].kind = "plain" \/ widgetpositions[i].points = <<>>

\* C12: a doPick in which no widget of the table gives a valid pick hides
\* the picker, emits no sigPointPicked and leaves self.pickerinfo as it was.
C12_NoPickHidesPicker ==
    (last.dopick /\ NoValidPick)
        => /\ ~pickeritem
           /\ "sigPointPicked" \notin last.signals
           /\ last.pickkept

\* A press in pick mode on a page whose table holds an axis and a plotter
\* without data: the picker, shown by the press, is hidden again.
C12_Witness ==
    /\ last.op = "press" /\ last.dopick
    /\ Len(widgetpositions) = 2 /\ NoValidPick
    /\ pickerwidgets = <<"c0">>
    /\ ~pickeritem /\ ~focus

\* C13: with the picker focused, a Left or Right key at the end of the
\* picked plotter's data emits no sigPointPicked and leaves the pick and
\* the picker's position as they were.
C13_EdgeKeyKeepsPick ==
    (last.op = "key" /\ last.clicked /\ last.edge)
        => /\ "sigPointPicked" \notin last.signals
           /\ last.pickkept
           /\ last.poskept

\* Right is pressed on the last point of plotter c2.
C13_Witness ==
    /\ last.op = "key" /\ last.mode = "Right" /\ last.edge
    /\ focus /\ pickeritem
    /\ pickerinfo.widget = "c2" /\ pickerinfo.index = 2

\* C14: after an Up or Down key that picks a point of another plotter, the
\* horizontal screen coordinate of self.pickerinfo is the one it had before
\* the key.
C14_VerticalKeepsColumn ==
    (last.op = "key" /\ last.mode \in {"Up", "Down"}
     /\ "sigPointPicked" \in last.signals)
        => pickerinfo.screenpos[1] = last.oldx

\* Down from the first point of c1 (x = 10) picks the first point of c2,
\* whose own x is 19: the picker moves there, the pick keeps x = 10.
C14_Witness ==
    /\ last.op = "key" /\ last.mode = "Down" /\ "sigPointPicked" \in last.signals
    /\ pickerinfo.widget = "c2"
    /\ pickerpos = <<19, 30>>
    /\ pickerinfo.screenpos = <<10, 30>>

\* --------------------------------------------------------------- getClick
\* getClick, up to its wait loop: the cursor is overridden, the click mode
\* saved and set to 'viewgetclick'.
getClick ==
    /\ Len(waits) < MaxWaits
    /\ cursor < MaxCursor
    /\ cursor' = cursor + 1
    /\ waits' = Append(waits, Wait(clickmode))
    /\ clickmode' = "viewgetclick"
    /\ last' = [NoEv EXCEPT !.op = "getclick", !.mode = clickmode]
    /\ UNCHANGED <<selvars, docvars, refreshvars, pickeritem, focus, pickstate,
                   currentclickmode, ignoreclick, grabpos, winpos, scrolltimer,
                   zoomrect, itemcursor, scroll, button,
                   quiet, pending, sincefail, stale, zhist, gesture>>

\* The wait loop of the innermost getClick finds the click mode is no
\* longer 'viewgetclick': the mode and the cursor are restored, and
\* pt = self.grabpos is read (pt.x() raises if it is None).
getClickReturn ==
    LET w == waits[Len(waits)] IN
    /\ waits # <<>>
    /\ clickmode # "viewgetclick"
    /\ clickmode' = w.oldmode
    /\ cursor' = Max(0, cursor - 1)
    /\ waits' = SubSeq(waits, 1, Len(waits) - 1)
    /\ last' = [NoEv EXCEPT !.op = "clickdone", !.mode = w.exit,
                            !.clicked = w.grabbed, !.aborted = (grabpos = NoPos)]
    /\ UNCHANGED <<selvars, docvars, refreshvars, pickeritem, focus, pickstate,
                   currentclickmode, ignoreclick, grabpos, winpos, scrolltimer,
                   zoomrect, itemcursor, scroll, button,
                   quiet, pending, sincefail, stale, zhist, gesture>>

\* ------------------------------------------------ the click specification
\* The view of an empty document as __init__ leaves it, or of a one-page
\* document after its first render; the table of widget positions is empty.
InitClickDoc ==
    \/ Init /\ numpages = 0
    \/ InitPick /\ widgetpositions = <<>>

\* Where the pointer events of this specification happen: two points of
\* the page 9 pixels apart horizontally and 20 vertically.
ClickPositions == {<<10, 10>>, <<19, 30>>}

NextClick ==
    \/ \E m \in ClickModes : slotSelectMode(m)
    \/ slotBecomeScrollClick
    \/ \E b \in {"left", "right"}, onpixmap \in BOOLEAN, pos \in ClickPositions :
           mousePressEvent(b, onpixmap, pos)
    \/ \E b \in {"left", "right"}, pos \in ClickPositions :
           mouseReleaseEvent(b, pos, FALSE)

SpecClick == InitClickDoc /\ [][NextClick]_vars

\* ---------------------------------------------- the getClick specification
\* Left-button gestures, mode changes and the hold timer, with getClick
\* called and waiting in between.
NextGetClick ==
    \/ \E m \in ClickModes : slotSelectMode(m)
    \/ slotBecomeScrollClick
    \/ \E onpixmap \in BOOLEAN, pos \in ClickPositions :
           mousePressEvent("left", onpixmap, pos)
    \/ \E pos \in ClickPositions : mouseReleaseEvent("left", pos, FALSE)
    \/ getClick
    \/ getClickReturn

SpecGetClick == InitClickDoc /\ [][NextGetClick]_vars

\* C15: the wait of getClick ends only by the handled left release of a
\* gesture pressed in click mode 'viewgetclick', and when it ends a grab
\* point recorded during the wait exists.
C15_WaitEndsByClick ==
    last.op = "clickdone" =>
        /\ last.mode = "viewgetclick"
        /\ last.clicked
        /\ ~last.aborted

\* ------------------------------------------ properties of the click modes
\* The release last handled ended a gesture begun by a left press on the
\* page.
HandledRelease == last.op = "release" /\ last.mode # "ignored"

\* C16: when slotSelectMode chose a mode during a gesture, the click mode
\* after the handled release of that gesture is the mode chosen.
C16_ChosenModeSurvivesRelease ==
    (HandledRelease /\ last.gesture.chosen # "None") =>
        clickmode = last.gesture.chosen

\* C17: after every handled left release the current click mode is None.
C17_ReleaseClearsCurrentMode ==
    HandledRelease => currentclickmode = "None"

\* The handled release of a gesture pressed on the page that the timer did
\* not turn (click) or did turn (scroll) into a scroll.
ClickRelease == HandledRelease /\ last.gesture.active /\ last.mode = "select"
ScrollRelease == HandledRelease /\ last.gesture.active /\ last.mode = "scroll"

\* The release left the timer stopped and ran no scroll branch; the timer
\* turns a gesture to a scroll exactly when it fires during the gesture.
ResolvesOneWay ==
    /\ HandledRelease => ~scrolltimer
    /\ (HandledRelease /\ last.gesture.active) =>
           (last.gesture.promoted <=> last.mode = "scroll")
    /\ ClickRelease =>
           /\ currentclickmode # "scroll"
           /\ cursor = last.cursorbefore
    /\ ScrollRelease =>
           /\ ~last.clicked
           /\ cursor = last.cursorbefore - 1
           /\ clickmode = "select"

C19_NoTimerWithoutLeft ==
    "left" \notin button =>
        /\ ~scrolltimer
        /\ currentclickmode # "scroll"
        /\ cursor = 0

\* ------------------------------------------------ the key specification
\* A table of an axis, a plotter without data and four plotters: c2 and
\* c3 lie at the same height between c1 and c4, c2 to the left and c3 to
\* the right.
KeyTables ==
    { <<Widget("x", "plain", <<>>),
        Widget("c0", "plotter", <<>>),
        Widget("c1", "plotter", << <<10, 10>>, <<30, 10>> >>),
        Widget("c2", "plotter", << <<10, 20>> >>),
        Widget("c3", "plotter", << <<30, 20>> >>),
        Widget("c4", "plotter", << <<10, 30>>, <<30, 30>> >>)>> }

\* A rendered one-page document and a view whose table of widget
\* positions holds the four plotters.
InitKeys ==
    /\ changeset = 0
    /\ numpages = 1
    /\ axes = AutoAxes
    /\ plotters = <<>>
    /\ scroll = <<0, 0>>
    /\ widgetpositions \in KeyTables
    /\ InitClick
    /\ zoomfactor = One
    /\ pagenumber = 0
    /\ size = pageSize(0, One)
    /\ bufferpixmap = [NewPixmap(pageSize(0, One)) EXCEPT !.pix = Pix("page", 0, One, 0)]
    /\ pixmapitem = bufferpixmap
    /\ painthelper = PaintHelper(0, One, 0, TRUE)
    /\ dialogs = 0
    /\ oldzoom = zoomfactor
    /\ docchangeset = changeset
    /\ forceupdate = FALSE

\* Where the pointer events of this specification happen: at the first
\* point of c1, at the last point of c4, and at a point as far from c1's
\* two points as from those of c2 and c3.
KeyPositions == {<<10, 10>>, <<30, 30>>, <<20, 15>>}

NextKeys ==
    \/ \E m \in PickModes : slotSelectMode(m)
    \/ \E onpixmap \in BOOLEAN, pos \in KeyPositions :
           mousePressEvent("left", onpixmap, pos)
    \/ \E pos \in KeyPositions : mouseMoveEvent(pos)
    \/ \E pos \in KeyPositions : mouseReleaseEvent("left", pos, FALSE)
    \/ \E k \in Keys : keyPressEvent(k)

SpecKeys == InitKeys /\ [][NextKeys]_vars

\* The candidate of the i-th remembered widget: its data point closest
\* horizontally to the column of the current pick.
Candidate(i) ==
    pickPoint(Lookup(pickerwidgets[i]), pickerinfo.screenpos[1], pickerpos[2],
              "horizontal")

\* The i-th remembered widget is not the one picked and its candidate lies
\* strictly above (Up) or below (Down) the picker.
OnSide(k, i) ==
    /\ pickerwidgets[i] # pickerinfo.widget
    /\ Valid(Candidate(i))
    /\ k = "Up" => Candidate(i).screenpos[2] < pickerpos[2]
    /\ k = "Down" => Candidate(i).screenpos[2] > pickerpos[2]

VerticalOffset(i) == Abs(pickerpos[2] - Candidate(i).screenpos[2])

\* The candidate on the side asked for with the least vertical offset, the
\* first in the order of self.pickerwidgets among equals.
NearestOnSide(k, i) ==
    /\ OnSide(k, i)
    /\ \A j \in 1..Len(pickerwidgets) :
           OnSide(k, j) =>
               \/ VerticalOffset(i) < VerticalOffset(j)
               \/ VerticalOffset(i) = VerticalOffset(j) /\ i <= j

\* C23: an Up or Down key handled by the focused picker picks the nearest
\* candidate on that side, the first of equals, and moves the picker to
\* it; with no candidate on that side it emits nothing and keeps the pick.
C23_VerticalPicksNearest ==
    [][\A k \in {"Up", "Down"} :
         (last'.op = "key" /\ last'.mode = k) =>
             IF \E i \in 1..Len(pickerwidgets) : OnSide(k, i)
             THEN \E i \in 1..Len(pickerwidgets) :
                      /\ NearestOnSide(k, i)
                      /\ pickerinfo'.widget = pickerwidgets[i]
                      /\ pickerinfo'.index = Candidate(i).index
                      /\ pickerpos' = Candidate(i).screenpos
                      /\ "sigPointPicked" \in last'.signals
             ELSE /\ last'.signals = {}
                  /\ UNCHANGED <<pickerinfo, pickerpos>>]_vars

\* Up from a pick in the right column: c2 and c3 are equally near, c2
\* comes first and is picked.
C23_Witness ==
    /\ last.op = "key" /\ last.mode \in {"Up", "Down"}
    /\ "sigPointPicked" \in last.signals
    /\ pickerinfo.widget = "c2"
    /\ pickerpos = <<10, 20>>
    /\ pickerinfo.screenpos = <<30, 20>>

\* ------------------------------------------------- doPick: properties
\* The entry of the table has a pickPoint method.
Responds(w) == w.kind # "plain"

\* The names of a sequence of table entries.
Names(ws) == [i \in 1..Len(ws) |-> ws[i].widget]

\* What the i-th entry of the table answers for the scene point pos.
Answer(i, pos) == pickPoint(widgetpositions[i], pos[1], pos[2], "radial")

\* The i-th entry answers with a data point, and no entry answers with a
\* nearer one, nor an earlier entry with one as near.
BestAnswer(i, pos) ==
    /\ Responds(widgetpositions[i])
    /\ Valid(Answer(i, pos))
    /\ \A j \in 1..Len(widgetpositions) :
           (Responds(widgetpositions[j]) /\ Valid(Answer(j, pos))) =>
               \/ Answer(i, pos).distance < Answer(j, pos).distance
               \/ Answer(i, pos).distance = Answer(j, pos).distance /\ i <= j

\* C24: doPick leaves in self.pickerwidgets the widgets of the table that
\* have pickPoint, in table order, and publishes the nearest answer, the
\* first of equals.
C24_PickNearestRemembersResponders ==
    [][last'.dopick =>
         LET pos == MapToScene(gesture'.lastpos) IN
         /\ pickerwidgets' = Names(SelectSeq(widgetpositions, Responds))
         /\ \A i \in 1..Len(widgetpositions) :
                BestAnswer(i, pos) =>
                    /\ pickerinfo' = Answer(i, pos)
                    /\ pickerpos' = Answer(i, pos).screenpos
                    /\ "sigPointPicked" \in last'.signals]_vars

\* A press as far from c1, c2 and c3: c1 comes first and is picked, and
\* the plotter without data is remembered with the others.
C24_Witness ==
    /\ last.dopick
    /\ gesture.lastpos = <<20, 15>>
    /\ pickerinfo.widget = "c1" /\ pickerinfo.index = 1
    /\ pickerwidgets = <<"c0", "c1", "c2", "c3", "c4">>

\* ------------------------------------------- the click-and-refresh specification
\* A view as __init__ leaves it, on a document of any page count: ticks
\* and document edits come between left-button gestures in 'select' and
\* 'graphzoom' mode.
LocateModes == {"select", "graphzoom"}
\* Where the pointer events happen: on the bare page and inside the graph.
LocatePositions == {<<0, 0>>, <<19, 30>>}

NextLocate ==
    \/ Tick
    \/ DialogClose
    \/ \E np \in 0..MaxPages : DocEdit(np)
    \/ slotViewNextPage
    \/ \E m \in LocateModes : slotSelectMode(m)
    \/ \E pos \in LocatePositions : mousePressEvent("left", TRUE, pos)
    \/ \E pos \in LocatePositions : mouseReleaseEvent("left", pos, FALSE)

SpecLocate == Init /\ [][NextLocate]_vars

\* The release of a click in 'select' mode reached locateClickWidget.
Located == last.op = "release" /\ last.mode = "select"

\* C25: locateClickWidget emits nothing on a document without pages, and
\* otherwise emits sigWidgetClicked with the widget at the point or, when
\* there is none, with the page.
C25_ClickFindsWidgetOrPage ==
    Located =>
        IF numpages = 0 THEN ~last.clicked
        ELSE last.clicked /\ last.widget \in {"graph", "page"}

\* C29: when the release of a click reaches the hit test of
\* locateClickWidget on a document with pages, or the release of a zoom
\* rectangle passes the dead zone, self.painthelper has been set by a
\* render pass.
C29_PaintStateBeforeUse ==
    /\ (Located /\ numpages # 0) => last.painted
    /\ (last.op = "release" /\ last.mode = "graphzoom") => ~last.aborted

\* ------------------------------------------- refresh: the notifications
\* A slotTimeout that found a change has run to its end: one that rendered
\* or found no page to render, or one resumed when its dialog closed.
ChangeTickEnded ==
    \/ last.op \in {"tick", "force"} /\ last.changed /\ ~last.failed
    \/ last.op = "close"

\* C26: a slotTimeout that found a change ends by emitting sigUpdatePage
\* with the page number clamped into [0, max(0, numPages - 1)] and by
\* enabling the previous-page action iff the page is not 0 and the
\* next-page action iff the page is below numPages - 1.
C26_ChangeTickNotifies ==
    ChangeTickEnded =>
        /\ "sigUpdatePage" \in last.signals
        /\ last.page = pagenumber
        /\ 0 <= last.page /\ last.page <= Max(0, numpages - 1)
        /\ last.toolbar = [prev |-> last.page # 0, next |-> last.page < numpages - 1]

\* -------------------------------------------- the selection specification
\* selectedWidgets(widgets)
selectedWidgets(widgets) ==
    /\ selwidget' = FirstOf(widgets)
    /\ controlgraphs' = NewControlGraphs(widgets, painthelper)
    /\ selection' = widgets
    /\ last' = [NoEv EXCEPT !.op = "selected"]
    /\ UNCHANGED <<docvars, refreshvars, pickeritem, focus, pickstate, waits,
                   clickvars, quiet, pending, sincefail, stale, zhist, gesture>>

\* The selections selectedWidgets is called with: none, one widget, two.
Selections == {<<>>, <<"graph">>, <<"x">>, <<"graph", "x">>}

NextSelect ==
    \/ Tick
    \/ DialogClose
    \/ \E np \in 0..MaxPages : DocEdit(np)
    \/ \E widgets \in Selections : selectedWidgets(widgets)

SpecSelect == Init /\ [][NextSelect]_vars

\* The last handler was a slotTimeout whose render pass succeeded.
RenderSucceeded == last.op \in {"tick", "force"} /\ last.rendered /\ ~last.failed

\* C27: after a render pass that succeeded the control items on the scene
\* are those of exactly the widgets selectedWidgets was last called with,
\* made from the new paint state.
C27_RenderRefreshesSelection ==
    RenderSucceeded =>
        controlgraphs =
            { ControlItem(selection[i], painthelper) : i \in 1..Len(selection) }

\* The (widget, bounds) pairs of the widgets the render pass of the paint
\* state ph drew: the page's graph and its axis.
WidgetPositionsOf(ph) ==
    IF ph.kind = "None" THEN <<>>
    ELSE <<Widget("graph", "plain", <<>>), Widget("x", "plain", <<>>)>>

\* C28: after a render pass that succeeded self.widgetpositions is the
\* table of the widgets that pass drew.
C28_TableFromSamePass ==
    RenderSucceeded => widgetpositions = WidgetPositionsOf(painthelper)

\* C30: after a render attempt on a document with a page the buffer has
\* the size of the current page at the current zoom factor.
C30_BufferHasPageSize ==
    (last.op \in {"tick", "force"} /\ last.rendered /\ numpages >= 1) =>
        /\ 0 <= pagenumber /\ pagenumber < numpages
        /\ bufferpixmap.size = pageSize(pagenumber, zoomfactor)

\* A move event of a scroll gesture moved the scroll bars.
ScrollMove == last.op = "move" /\ last.mode = "scroll"

\* C21: each move event of a scroll gesture moves the scroll bars by the
\* pointer's displacement since the move event before it (since the press
\* when no move event came before).
C21_ScrollBySinceLastMove == ScrollMove => last.stepwise

\* What slotSelectMode signals: sigPickerEnabled(False) first, and then
\* sigPickerEnabled(True) exactly when the mode chosen is 'pick'.
SignalsPickerEnabled ==
    last.op = "mode" =>
        /\ clickmode = last.mode
        /\ Len(last.enabled) >= 1 /\ last.enabled[1] = FALSE
        /\ (clickmode = "pick" <=> last.enabled = <<FALSE, TRUE>>)
        /\ (clickmode # "pick" => last.enabled = <<FALSE>>)

\* C22 as stated: slotSelectMode hides the picker and signals it disabled,
\* and then shows it again and signals it enabled exactly when the mode
\* chosen is 'pick'.
C22_PickReshowsPicker ==
    /\ SignalsPickerEnabled
    /\ last.op = "mode" => (pickeritem <=> clickmode = "pick")

\* C22, amended: the picker is hidden after slotSelectMode whatever the
\* mode chosen; for 'pick' the pixmap item gets the cross cursor.
C22_PickerHiddenThenEnabled ==
    /\ SignalsPickerEnabled
    /\ last.op = "mode" =>
           /\ ~pickeritem
           /\ (itemcursor = "cross" <=> clickmode = "pick")

\* 'pick' is chosen again after a point was picked.
C22_Witness ==
    /\ last.op = "mode" /\ last.mode = "pick"
    /\ pickerinfo # NoPickInfo
    /\ last.enabled = <<FALSE, TRUE>>
    /\ ~pickeritem

\* C20: a move event handled while the click mode is 'select' or 'pick'
\* emits sigAxisValuesFromMouse.
C20_MovePublishesAxes ==
    (last.op = "move" /\ clickmode \in {"select", "pick"}) =>
        "sigAxisValuesFromMouse" \in last.signals

====
